---- MODULE Spec2Model ----
(***************************************************************************)
(* Model of the statistical disclosure-control engine of FAIRDatabase:     *)
(* the pandas based partitioner, the k / l / t evaluators, the validator   *)
(* and P(29) scorer, the single pass enforce_privacy and the looping       *)
(* ensure_privacy.                                                         *)
(*                                                                         *)
(* A DataFrame is a sequence of rows; every row carries its index label    *)
(* (idx) next to its cells, because the code mixes label based and         *)
(* position based access.  Labels and positions are counted from 1 here    *)
(* (pandas counts from 0).  Cell values are the text of the value in its   *)
(* column's own dtype ("30" is the int64 30, "0.5" the float64 0.5).       *)
(* Metric values are exact rationals <<num, den>>; <<0, 0>> is NaN.  The   *)
(* code computes them in binary floating point: rounding is not modelled.  *)
(***************************************************************************)
EXTENDS Integers, Sequences, FiniteSets, TLC

\* ------------------------------------------------------------------ bounds
\* Largest number of rows of a dataset handed to the engine.
MaxRows == 4
\* Largest number of calls a caller chains on one dataset (call, then call
\* again on what the first call returned).
MaxCalls == 2

\* ------------------------------------------------------------ data model
Columns == <<"age", "gender", "diagnosis">>

\* A frame read from a CSV with text columns, and one with numeric columns only.
\* A cell is held as the text str() gives for the value in its column's dtype.
ObjectDtypes == [age |-> "int64", gender |-> "object", diagnosis |-> "object"]
NumericDtypes == [age |-> "int64", gender |-> "int64", diagnosis |-> "float64"]

\* The rows the frames are made of: two ages, diagnosis "A" at both ages and a
\* second diagnosis that differs between the ages.
ObjectCells ==
    {r \in [age : {"30", "40"}, gender : {"M"}, diagnosis : {"A", "B", "C"}] :
        /\ r.age = "30" => r.diagnosis # "C"
        /\ r.age = "40" => r.diagnosis # "B"}
NumericCells == [age : {"30", "40"}, gender : {"1"}, diagnosis : {"0.5", "1.5"}]

\* Sort order of the cell values of one column (ints, floats, text).
ValOrder == <<"0.5", "1.5", "1", "30", "40", "A", "B", "C", "M">>
ValRank(v) == CHOOSE i \in 1..Len(ValOrder) : ValOrder[i] = v

Min2(a, b) == IF a < b THEN a ELSE b

\* The rows of `cells` labelled 1..n in order: a frame as read_csv returns it.
Labelled(cells) ==
    [i \in 1..Len(cells) |->
        [idx |-> i, age |-> cells[i].age, gender |-> cells[i].gender,
         diagnosis |-> cells[i].diagnosis]]

\* ------------------------------------------------------------ formatting
\* dtype of the Series pandas builds for one row (df.iloc[i], df.apply(axis=1)):
\* the common dtype of all columns.
RowSeriesDtype(dtypes) ==
    IF \E i \in 1..Len(Columns) : dtypes[Columns[i]] = "object" THEN "object"
    ELSE IF \E i \in 1..Len(Columns) : dtypes[Columns[i]] = "float64" THEN "float64"
    ELSE "int64"

\* str() of an int64 value after the upcast to float64.
FloatRepr(v) ==
    CASE v = "30" -> "30.0"
      [] v = "40" -> "40.0"
      [] v = "1" -> "1.0"
      [] OTHER -> v

\* f"{row[col]}" where row is a row Series of a frame with these dtypes.
RowStr(dtypes, col, v) ==
    IF RowSeriesDtype(dtypes) = "float64" /\ dtypes[col] = "int64"
    THEN FloatRepr(v) ELSE v

\* ", ".join(parts)
RECURSIVE JoinComma(_)
JoinComma(parts) ==
    IF Len(parts) = 0 THEN ""
    ELSE IF Len(parts) = 1 THEN parts[1]
    ELSE parts[1] \o ", " \o JoinComma(Tail(parts))

\* get_group_key(quasi_cols, group_key): zip is cut at the shorter argument.
get_group_key(quasi_cols, group_key) ==
    JoinComma([i \in 1..Min2(Len(quasi_cols), Len(group_key)) |->
                  quasi_cols[i] \o ": " \o group_key[i]])

\* Iterating a row Series yields its cells in column order, each as the row holds it.
RowValues(dtypes, row) ==
    [i \in 1..Len(Columns) |-> RowStr(dtypes, Columns[i], row[Columns[i]])]

\* ----------------------------------------------------------- partitioner
GroupTuple(row, quasi) == [i \in 1..Len(quasi) |-> row[quasi[i]]]

RECURSIVE TupleLess(_, _)
TupleLess(a, b) ==
    IF Len(a) = 0 \/ Len(b) = 0 THEN Len(a) < Len(b)
    ELSE IF a[1] = b[1] THEN TupleLess(Tail(a), Tail(b))
    ELSE ValRank(a[1]) < ValRank(b[1])

RECURSIVE SortTuples(_)
SortTuples(S) ==
    IF S = {} THEN <<>>
    ELSE LET m == CHOOSE x \in S : \A y \in S : x = y \/ TupleLess(x, y)
         IN <<m>> \o SortTuples(S \ {m})

\* The distinct quasi-identifier tuples of df, in groupby's (sorted) order.
GroupTuples(df, quasi) ==
    SortTuples({GroupTuple(df[i], quasi) : i \in 1..Len(df)})

RowsOfGroup(df, quasi, g) == SelectSeq(df, LAMBDA r : GroupTuple(r, quasi) = g)

\* dataset.groupby(by=[]) on a frame with rows raises ValueError ("No group
\* keys passed!"); on a frame without rows it gives no group.
GroupbyRaises(dataset, quasi_cols) == Len(quasi_cols) = 0 /\ Len(dataset) > 0

\* Variant: the groups hold the POSITIONS of their rows, not the labels.
compute_partition_by_positions(dataset, quasi_cols) ==
    LET gs == GroupTuples(dataset, quasi_cols)
    IN [i \in 1..Len(gs) |->
           SelectSeq([p \in 1..Len(dataset) |-> p],
                     LAMBDA p : GroupTuple(dataset[p], quasi_cols) = gs[i])]

\* compute_partition_by_ids: grouped.groups.values(), the index LABELS of each group.
compute_partition_by_ids(dataset, quasi_cols) ==
    LET gs == GroupTuples(dataset, quasi_cols)
    IN [i \in 1..Len(gs) |->
           LET rows == RowsOfGroup(dataset, quasi_cols, gs[i])
           IN [j \in 1..Len(rows) |-> rows[j].idx]]

\* df.iloc[group]: the labels are used as POSITIONS; a position past the end
\* raises IndexError.
IlocOK(df, group) == \A j \in 1..Len(group) : group[j] \in 1..Len(df)

\* Neither the groupby nor an iloc of the loop over the partitions raises.
PartitionsOK(df, quasi_cols, partitions) ==
    /\ ~GroupbyRaises(df, quasi_cols)
    /\ \A i \in 1..Len(partitions) : IlocOK(df, partitions[i])
Iloc(df, group) == [j \in 1..Len(group) |-> df[group[j]]]

\* get_group_key_from_partition(df, group_indices, quasi_cols)
get_group_key_from_partition(df, dtypes, group_indices, quasi_cols) ==
    LET first == Iloc(df, group_indices)[1]
        values == [i \in 1..Len(quasi_cols) |->
                      RowStr(dtypes, quasi_cols[i], first[quasi_cols[i]])]
    IN get_group_key(quasi_cols, values)

\* ------------------------------------------------------------- dict helper
\* d[key] = val on a dict kept as a sequence of entries in insertion order.
DictSet(d, key, val) ==
    IF \E i \in 1..Len(d) : d[i].key = key
    THEN [i \in 1..Len(d) |-> IF d[i].key = key THEN [key |-> key, val |-> val] ELSE d[i]]
    ELSE Append(d, [key |-> key, val |-> val])

DictKeys(d) == {d[i].key : i \in 1..Len(d)}
DictGet(d, key) == (CHOOSE i \in 1..Len(d) : d[i].key = key)

\* ------------------------------------------------------------ k-anonymity
RECURSIVE KScores(_, _, _, _, _)
KScores(data, dtypes, quasi_idents, partitions, acc) ==
    IF Len(partitions) = 0 THEN acc
    ELSE LET group == partitions[1]
             subset == Iloc(data, group)
             \* get_group_key(subset.iloc[0], quasi_idents): the row is passed
             \* where the column names are expected.
             group_key == get_group_key(RowValues(dtypes, subset[1]), quasi_idents)
         IN KScores(data, dtypes, quasi_idents, Tail(partitions),
                    DictSet(acc, group_key, Len(subset)))

\* k_anonymity_for_sensitive_attr: [ok, rows]; ok = FALSE is the IndexError of iloc.
k_anonymity_for_sensitive_attr(data, dtypes, quasi_idents) ==
    LET partitions == compute_partition_by_ids(data, quasi_idents)
    IN IF PartitionsOK(data, quasi_idents, partitions)
       THEN [ok |-> TRUE, rows |-> KScores(data, dtypes, quasi_idents, partitions, <<>>)]
       ELSE [ok |-> FALSE, rows |-> <<>>]

\* -------------------------------------------------------------- rationals
NaN == <<0, 0>>
IsNaN(a) == a[2] = 0
\* Comparisons as numpy makes them: every comparison with NaN is False.
Gt(a, b) == ~IsNaN(a) /\ ~IsNaN(b) /\ a[1] * b[2] > b[1] * a[2]
Le(a, b) == ~IsNaN(a) /\ ~IsNaN(b) /\ a[1] * b[2] <= b[1] * a[2]
Eq(a, b) == ~IsNaN(a) /\ ~IsNaN(b) /\ a[1] * b[2] = b[1] * a[2]
Abs(x) == IF x < 0 THEN -x ELSE x

\* log2(n) in thousandths, for the counts a bounded dataset can show.
Log2Milli(n) ==
    CASE n = 1 -> 0
      [] n = 2 -> 1000
      [] n = 3 -> 1585
      [] n = 4 -> 2000
      [] n = 5 -> 2322
      [] n = 6 -> 2585
      [] OTHER -> 2807

RECURSIVE GCD(_, _)
GCD(a, b) == IF b = 0 THEN a ELSE GCD(b, a % b)

\* Rational arithmetic; NaN is absorbing, as in IEEE arithmetic.
RNorm(a) ==
    IF IsNaN(a) THEN NaN
    ELSE LET g == GCD(Abs(a[1]), a[2]) IN <<a[1] \div g, a[2] \div g>>
RAdd(a, b) == IF IsNaN(a) \/ IsNaN(b) THEN NaN ELSE RNorm(<<a[1] * b[2] + b[1] * a[2], a[2] * b[2]>>)
RSub(a, b) == IF IsNaN(a) \/ IsNaN(b) THEN NaN ELSE RNorm(<<a[1] * b[2] - b[1] * a[2], a[2] * b[2]>>)
RMul(a, b) == IF IsNaN(a) \/ IsNaN(b) THEN NaN ELSE RNorm(<<a[1] * b[1], a[2] * b[2]>>)
\* x / y with y > 0 (NaN when an operand is NaN).
RDiv(a, b) == IF IsNaN(a) \/ IsNaN(b) \/ b[1] <= 0 THEN NaN ELSE RNorm(<<a[1] * b[2], a[2] * b[1]>>)

RECURSIVE SumOver(_, _)
SumOver(S, f) ==
    IF S = {} THEN 0
    ELSE LET x == CHOOSE y \in S : TRUE IN f[x] + SumOver(S \ {x}, f)

\* series.value_counts() and series.nunique() of one column of a sequence of rows.
Count(rows, col, v) == Cardinality({j \in 1..Len(rows) : rows[j][col] = v})
Distinct(rows, col) == {rows[j][col] : j \in 1..Len(rows)}

\* n * H(rows[col]) in thousandths of a bit: n*log2(n) - sum c*log2(c).
EntropyTimesN(rows, col) ==
    LET D == Distinct(rows, col)
    IN Len(rows) * Log2Milli(Len(rows))
       - SumOver(D, [v \in D |-> Count(rows, col, v) * Log2Milli(Count(rows, col, v))])

\* --------------------------------------------------- normalized entropy (l)
RECURSIVE EntScores(_, _, _, _, _, _)
EntScores(df, dtypes, quasi_cols, sensitive_col, partitions, acc) ==
    IF Len(partitions) = 0 THEN acc
    ELSE LET group == partitions[1]
             subset == Iloc(df, group)
             unique_vals == Cardinality(Distinct(df, sensitive_col))
             ent == <<EntropyTimesN(subset, sensitive_col),
                      Len(subset) * Log2Milli(unique_vals)>>
             group_key == get_group_key_from_partition(df, dtypes, group, quasi_cols)
         IN EntScores(df, dtypes, quasi_cols, sensitive_col, Tail(partitions),
                      DictSet(acc, group_key, ent))

\* compute_numeric_normalized_entropy: {} when the column has at most one
\* distinct value in the dataset.
compute_numeric_normalized_entropy(df, dtypes, quasi_cols, sensitive_col) ==
    LET partitions == compute_partition_by_ids(df, quasi_cols)
    IN IF GroupbyRaises(df, quasi_cols) THEN [ok |-> FALSE, rows |-> <<>>]
       ELSE IF Cardinality(Distinct(df, sensitive_col)) <= 1 \/ Len(df) = 0
       THEN [ok |-> TRUE, rows |-> <<>>]
       ELSE IF PartitionsOK(df, quasi_cols, partitions)
       THEN [ok |-> TRUE,
             rows |-> EntScores(df, dtypes, quasi_cols, sensitive_col, partitions, <<>>)]
       ELSE [ok |-> FALSE, rows |-> <<>>]

\* compute_categorical_normalized_entropy: the same computation on value counts.
compute_categorical_normalized_entropy(df, dtypes, quasi_cols, sensitive_col) ==
    LET partitions == compute_partition_by_ids(df, quasi_cols)
    IN IF GroupbyRaises(df, quasi_cols) THEN [ok |-> FALSE, rows |-> <<>>]
       ELSE IF Cardinality(Distinct(df, sensitive_col)) <= 1 \/ Len(df) = 0
       THEN [ok |-> TRUE, rows |-> <<>>]
       ELSE IF PartitionsOK(df, quasi_cols, partitions)
       THEN [ok |-> TRUE,
             rows |-> EntScores(df, dtypes, quasi_cols, sensitive_col, partitions, <<>>)]
       ELSE [ok |-> FALSE, rows |-> <<>>]

\* pd.api.types.is_numeric_dtype(data[col])
is_numeric_dtype(dtypes, col) == dtypes[col] \in {"int64", "float64"}

\* ------------------------------------------------------------ t-closeness
\* 0.5 * sum over the dataset's values of |local share - global share|.
TScore(df, subset, sensitive_col) ==
    LET U == Distinct(df, sensitive_col)
    IN <<SumOver(U, [v \in U |->
                     Abs(Count(subset, sensitive_col, v) * Len(df)
                         - Count(df, sensitive_col, v) * Len(subset))]),
         2 * Len(subset) * Len(df)>>

RECURSIVE TScores(_, _, _, _, _, _)
TScores(df, dtypes, quasi_cols, sensitive_col, partitions, acc) ==
    IF Len(partitions) = 0 THEN acc
    ELSE LET group == partitions[1]
             subset == Iloc(df, group)
             group_key == get_group_key_from_partition(df, dtypes, group, quasi_cols)
         IN TScores(df, dtypes, quasi_cols, sensitive_col, Tail(partitions),
                    DictSet(acc, group_key, TScore(df, subset, sensitive_col)))

compute_categorical_t_closeness(df, dtypes, quasi_cols, sensitive_col) ==
    LET partitions == compute_partition_by_ids(df, quasi_cols)
    IN IF PartitionsOK(df, quasi_cols, partitions)
       THEN [ok |-> TRUE,
             rows |-> TScores(df, dtypes, quasi_cols, sensitive_col, partitions, <<>>)]
       ELSE [ok |-> FALSE, rows |-> <<>>]

compute_numeric_t_closeness(df, dtypes, quasi_cols, sensitive_col) ==
    LET partitions == compute_partition_by_ids(df, quasi_cols)
    IN IF PartitionsOK(df, quasi_cols, partitions)
       THEN [ok |-> TRUE,
             rows |-> TScores(df, dtypes, quasi_cols, sensitive_col, partitions, <<>>)]
       ELSE [ok |-> FALSE, rows |-> <<>>]

\* ------------------------------------------------- frames of metric values
\* pd.DataFrame.from_dict({col: {key: value}}): the index is the union of the
\* keys in order of first appearance, a missing entry is NaN.
RECURSIVE UnionKeys(_, _)
UnionKeys(dicts, acc) ==
    IF Len(dicts) = 0 THEN acc
    ELSE LET d == dicts[1]
             fresh == SelectSeq([i \in 1..Len(d) |-> d[i].key],
                                LAMBDA k : \A j \in 1..Len(acc) : acc[j] # k)
         IN UnionKeys(Tail(dicts), acc \o fresh)

FrameFromDict(cols, results) ==
    LET dicts == [i \in 1..Len(results) |-> results[i].rows]
        index == UnionKeys(dicts, <<>>)
    IN [ok |-> \A i \in 1..Len(results) : results[i].ok,
        index |-> index,
        cols |-> cols,
        cell |-> [c \in 1..Len(cols) |->
                    [r \in 1..Len(index) |->
                        IF index[r] \in DictKeys(dicts[c])
                        THEN dicts[c][DictGet(dicts[c], index[r])].val
                        ELSE NaN]]]

normalized_entropy_for_sensitive_attr(df, dtypes, quasi_ident, sens_ident) ==
    FrameFromDict(sens_ident,
        [i \in 1..Len(sens_ident) |->
            IF is_numeric_dtype(dtypes, sens_ident[i])
            THEN compute_numeric_normalized_entropy(df, dtypes, quasi_ident, sens_ident[i])
            ELSE compute_categorical_normalized_entropy(df, dtypes, quasi_ident, sens_ident[i])])

t_closeness_for_sensitive_attr(df, dtypes, quasi_ident, sens_attr) ==
    FrameFromDict(sens_attr,
        [i \in 1..Len(sens_attr) |->
            IF is_numeric_dtype(dtypes, sens_attr[i])
            THEN compute_numeric_t_closeness(df, dtypes, quasi_ident, sens_attr[i])
            ELSE compute_categorical_t_closeness(df, dtypes, quasi_ident, sens_attr[i])])

\* Position of a key in a frame's index (0 when absent).
RowOf(frame, key) ==
    IF \E r \in 1..Len(frame.index) : frame.index[r] = key
    THEN CHOOSE r \in 1..Len(frame.index) : frame.index[r] = key
    ELSE 0

\* --------------------------------------------------------- enforce_privacy
\* get_key(row) of enforce_privacy: the key of a row, from the row Series.
get_key(dtypes, row, quasi_idents) ==
    JoinComma([i \in 1..Len(quasi_idents) |->
                  quasi_idents[i] \o ": " \o RowStr(dtypes, quasi_idents[i], row[quasi_idents[i]])])

FrameKeys(frame) == {frame.index[r] : r \in 1..Len(frame.index)}

\* Variant: a key missing from one side of the alignment counts as True.
InvalidKeysMissingAsTrue(k_df, l_df, t_df, t_thresh, k_thresh, l_thresh) ==
    LET kl_index == {key \in DictKeys(k_df.rows) : RowOf(l_df, key) # 0}
        k_ok(key) == k_df.rows[DictGet(k_df.rows, key)].val > k_thresh
        l_ok(key) == \A c \in 1..Len(l_df.cols) : Gt(l_df.cell[c][RowOf(l_df, key)], l_thresh)
        t_ok(key) == \A c \in 1..Len(t_df.cols) : Le(t_df.cell[c][RowOf(t_df, key)], t_thresh)
        valid(key) == /\ key \in kl_index => (k_ok(key) /\ l_ok(key))
                      /\ key \in FrameKeys(t_df) => t_ok(key)
    IN {key \in kl_index \cup FrameKeys(t_df) : ~valid(key)}

\* The keys enforce_privacy finds invalid.  kl_df is the inner join of k_df and
\* l_df on their index; valid = k_ok & l_ok & t_ok is aligned on the union of the
\* indexes, a key missing on one side counting as False.
InvalidKeys(k_df, l_df, t_df, t_thresh, k_thresh, l_thresh) ==
    LET kl_index == {key \in DictKeys(k_df.rows) : RowOf(l_df, key) # 0}
        k_ok(key) == k_df.rows[DictGet(k_df.rows, key)].val > k_thresh
        l_ok(key) == \A c \in 1..Len(l_df.cols) : Gt(l_df.cell[c][RowOf(l_df, key)], l_thresh)
        t_ok(key) == \A c \in 1..Len(t_df.cols) : Le(t_df.cell[c][RowOf(t_df, key)], t_thresh)
        valid(key) == /\ key \in kl_index
                      /\ key \in FrameKeys(t_df)
                      /\ k_ok(key) /\ l_ok(key) /\ t_ok(key)
    IN {key \in kl_index \cup FrameKeys(t_df) : ~valid(key)}

\* enforce_privacy: [ok, df]; ok = FALSE when an evaluator raised.
enforce_privacy(data, dtypes, quasi_idents, sens_attr, t_thresh, k_thresh, l_thresh) ==
    LET k_df == k_anonymity_for_sensitive_attr(data, dtypes, quasi_idents)
        l_df == normalized_entropy_for_sensitive_attr(data, dtypes, quasi_idents, sens_attr)
        t_df == t_closeness_for_sensitive_attr(data, dtypes, quasi_idents, sens_attr)
    IN IF ~(k_df.ok /\ l_df.ok /\ t_df.ok) THEN [ok |-> FALSE, df |-> <<>>]
       ELSE LET invalid_keys == InvalidKeys(k_df, l_df, t_df, t_thresh, k_thresh, l_thresh)
            IN [ok |-> TRUE,
                df |-> SelectSeq(data,
                          LAMBDA row : get_key(dtypes, row, quasi_idents) \notin invalid_keys)]

\* -------------------------------------------------------------- validators
\* f"{threshold}" of the thresholds in use.
FloatStr(x) ==
    CASE Eq(x, <<1, 2>>) -> "0.5"
      [] Eq(x, <<1, 4>>) -> "0.25"
      [] Eq(x, <<7, 10>>) -> "0.7"
      [] Eq(x, <<0, 1>>) -> "0.0"
      [] OTHER -> "?"

\* min / max of a set of rationals, NaN when the set has no number (skipna).
RMin(S) ==
    LET N == {x \in S : ~IsNaN(x)}
    IN IF N = {} THEN NaN ELSE CHOOSE x \in N : \A y \in N : Le(x, y)
RMax(S) ==
    LET N == {x \in S : ~IsNaN(x)}
    IN IF N = {} THEN NaN ELSE CHOOSE x \in N : \A y \in N : Le(y, x)

KValues(k_df) == {k_df.rows[i].val : i \in 1..Len(k_df.rows)}
MinK(k_df) == IF KValues(k_df) = {} THEN 0
              ELSE CHOOSE x \in KValues(k_df) : \A y \in KValues(k_df) : x <= y

\* check_k_anonymity_violations(k_df): the threshold 1 is written in the code.
check_k_anonymity_violations(k_df) ==
    IF KValues(k_df) # {} /\ MinK(k_df) <= 1
    THEN [problem |-> TRUE,
          violations |->
              LET bad == SelectSeq(k_df.rows, LAMBDA e : e.val = 1)
              IN [i \in 1..Len(bad) |-> <<bad[i].key, "k-anonymity is 1">>]]
    ELSE [problem |-> FALSE, violations |-> <<>>]

\* The cells (column c, row r) of the columns from..Len(cols) of a frame that
\* flag marks, column by column and in index order inside a column.
ColumnHits(frame, from, flag) ==
    LET R == Len(frame.index)
        n == IF Len(frame.cols) < from THEN 0 ELSE (Len(frame.cols) - from + 1) * R
        cellAt == [i \in 1..n |-> [c |-> from + ((i - 1) \div R), r |-> ((i - 1) % R) + 1]]
    IN SelectSeq(cellAt, LAMBDA p : flag[p.c][p.r])

\* check_l_diversity_violations(l_df): l_df.iloc[:, 1:] leaves the first column
\* out; the test is "== 0".
check_l_diversity_violations(l_df) ==
    LET isZero == [c \in 1..Len(l_df.cols) |->
                      [r \in 1..Len(l_df.index) |-> Eq(l_df.cell[c][r], <<0, 1>>)]]
        has_issue == \E c \in 2..Len(l_df.cols) : \E r \in 1..Len(l_df.index) : isZero[c][r]
        hits == ColumnHits(l_df, 2, isZero)
    IN [problem |-> has_issue,
        violations |->
            IF has_issue
            THEN [i \in 1..Len(hits) |->
                     <<l_df.index[hits[i].r],
                       "normalized entropy l-value is 0 for " \o l_df.cols[hits[i].c]>>]
            ELSE <<>>]

\* check_t_closeness_violations(t_df, threshold)
check_t_closeness_violations(t_df, threshold) ==
    LET high == [c \in 1..Len(t_df.cols) |->
                    [r \in 1..Len(t_df.index) |-> Gt(t_df.cell[c][r], threshold)]]
        has_issue == \E c \in 1..Len(t_df.cols) : \E r \in 1..Len(t_df.index) : high[c][r]
        hits == ColumnHits(t_df, 1, high)
    IN [problem |-> has_issue,
        violations |->
            IF has_issue
            THEN [i \in 1..Len(hits) |->
                     <<t_df.index[hits[i].r],
                       "t-value exceeds " \o FloatStr(threshold) \o " for "
                           \o t_df.cols[hits[i].c]>>]
            ELSE <<>>]

\* All cells of the columns from..Len(cols) of a frame.
CellsFrom(frame, from) ==
    {frame.cell[c][r] : c \in from..Len(frame.cols), r \in 1..Len(frame.index)}

\* Default of check_t_closeness_violations' threshold parameter.
DefaultTThreshold == <<1, 2>>

\* validate_privacy(k_df, l_df, t_df): min_k = 0 stands for NaN (empty k_df).
\* First a variant in which a check runs only while the checks before it found
\* nothing, then the function.
validate_privacy_short_circuit(k_df, l_df, t_df) ==
    LET k == check_k_anonymity_violations(k_df)
        l == IF k.problem THEN [problem |-> FALSE, violations |-> <<>>]
             ELSE check_l_diversity_violations(l_df)
        t == IF k.problem \/ l.problem THEN [problem |-> FALSE, violations |-> <<>>]
             ELSE check_t_closeness_violations(t_df, DefaultTThreshold)
    IN [score |-> <<0, 1>>,
        problematic_info |-> k.violations \o l.violations \o t.violations,
        reasons |-> (IF k.problem THEN <<"k-anonymity is 1">> ELSE <<>>)
                    \o (IF l.problem THEN <<"normalized entropy l-value is 0 for some attribute">> ELSE <<>>)
                    \o (IF t.problem THEN <<"t-value exceeds 0.5 for some attribute">> ELSE <<>>),
        min_k |-> MinK(k_df),
        min_l |-> RMin(CellsFrom(l_df, 2)),
        max_t |-> RMax(CellsFrom(t_df, 1))]
validate_privacy(k_df, l_df, t_df) ==
    LET k == check_k_anonymity_violations(k_df)
        l == check_l_diversity_violations(l_df)
        t == check_t_closeness_violations(t_df, DefaultTThreshold)
    IN [score |-> <<0, 1>>,
        problematic_info |-> k.violations \o l.violations \o t.violations,
        reasons |-> (IF k.problem THEN <<"k-anonymity is 1">> ELSE <<>>)
                    \o (IF l.problem THEN <<"normalized entropy l-value is 0 for some attribute">> ELSE <<>>)
                    \o (IF t.problem THEN <<"t-value exceeds 0.5 for some attribute">> ELSE <<>>),
        min_k |-> MinK(k_df),
        min_l |-> RMin(CellsFrom(l_df, 2)),
        max_t |-> RMax(CellsFrom(t_df, 1))]

\* ------------------------------------------------------------- P(29) score
RECURSIVE RSum(_)
RSum(xs) == IF Len(xs) = 0 THEN <<0, 1>> ELSE RAdd(xs[1], RSum(Tail(xs)))

\* Series.mean(): the mean of the values that are not NaN, NaN when there is none.
RMean(xs) ==
    LET nums == SelectSeq(xs, LAMBDA x : ~IsNaN(x))
    IN IF Len(nums) = 0 THEN NaN ELSE RDiv(RSum(nums), <<Len(nums), 1>>)

\* frame.mean().mean(): the mean of the column means.
MeanOfColumnMeans(frame) ==
    RMean([c \in 1..Len(frame.cols) |-> RMean(frame.cell[c])])

\* compute_normalize_t_values(t_numeric): min-max per column, 0.0 when max = min.
compute_normalize_t_values(t_numeric) ==
    [t_numeric EXCEPT !.cell =
        [c \in 1..Len(t_numeric.cols) |->
            LET col == t_numeric.cell[c]
                vals == {col[r] : r \in 1..Len(col)}
                col_min == RMin(vals)
                col_max == RMax(vals)
            IN IF Gt(col_max, col_min)
               THEN [r \in 1..Len(col) |-> RDiv(RSub(col[r], col_min), RSub(col_max, col_min))]
               ELSE [r \in 1..Len(col) |-> <<0, 1>>]]]

NoReport == [ok |-> FALSE, score |-> NaN, problematic_info |-> <<>>, reasons |-> <<>>,
             min_k |-> 0, min_l |-> NaN, max_t |-> NaN]

\* Variant: the composite score is returned whatever the reasons.
P_29_score_unfloored(df, dtypes, quasi_idents, sens_attr, w) ==
    LET k_df == k_anonymity_for_sensitive_attr(df, dtypes, quasi_idents)
        l_df == normalized_entropy_for_sensitive_attr(df, dtypes, quasi_idents, sens_attr)
        t_df == t_closeness_for_sensitive_attr(df, dtypes, quasi_idents, sens_attr)
    IN IF ~(k_df.ok /\ l_df.ok /\ t_df.ok) THEN NoReport
       ELSE LET privEval == validate_privacy(k_df, l_df, t_df)
                normalized_l == MeanOfColumnMeans(l_df)
                normalized_t == MeanOfColumnMeans(compute_normalize_t_values(t_df))
                min_k == IF privEval.min_k = 0 THEN NaN ELSE <<privEval.min_k, 1>>
            IN [ok |-> TRUE,
                score |-> RAdd(RAdd(RMul(w.k, RSub(<<1, 1>>, RDiv(<<1, 1>>, min_k))),
                                    RMul(w.l, normalized_l)),
                               RMul(w.t, RSub(<<1, 1>>, normalized_t))),
                problematic_info |-> privEval.problematic_info,
                reasons |-> privEval.reasons,
                min_k |-> privEval.min_k,
                min_l |-> privEval.min_l,
                max_t |-> privEval.max_t]

\* P_29_score(data, quasi_idents, sens_attr, w_k, w_l, w_t); ok = FALSE when an
\* evaluator raised.
P_29_score(df, dtypes, quasi_idents, sens_attr, w) ==
    LET k_df == k_anonymity_for_sensitive_attr(df, dtypes, quasi_idents)
        l_df == normalized_entropy_for_sensitive_attr(df, dtypes, quasi_idents, sens_attr)
        t_df == t_closeness_for_sensitive_attr(df, dtypes, quasi_idents, sens_attr)
    IN IF ~(k_df.ok /\ l_df.ok /\ t_df.ok) THEN NoReport
       ELSE LET privEval == validate_privacy(k_df, l_df, t_df)
                normalized_l == MeanOfColumnMeans(l_df)
                normalized_t == MeanOfColumnMeans(compute_normalize_t_values(t_df))
                min_k == IF privEval.min_k = 0 THEN NaN ELSE <<privEval.min_k, 1>>
                score == RAdd(RAdd(RMul(w.k, RSub(<<1, 1>>, RDiv(<<1, 1>>, min_k))),
                                   RMul(w.l, normalized_l)),
                              RMul(w.t, RSub(<<1, 1>>, normalized_t)))
            IN [ok |-> TRUE,
                score |-> IF Len(privEval.reasons) > 0 THEN <<0, 1>> ELSE score,
                problematic_info |-> privEval.problematic_info,
                reasons |-> privEval.reasons,
                min_k |-> privEval.min_k,
                min_l |-> privEval.min_l,
                max_t |-> privEval.max_t]

\* ------------------------------------------------- app.py: ensure_privacy
\* calculate_normalized_entropy(series): normalized by the distinct values of
\* the series it is given (the group).
calculate_normalized_entropy(rows, col) ==
    IF Len(rows) = 0 THEN <<0, 1>>
    ELSE IF Cardinality(Distinct(rows, col)) = 1 THEN <<0, 1>>
    ELSE <<EntropyTimesN(rows, col), Len(rows) * Log2Milli(Cardinality(Distinct(rows, col)))>>

\* The 'Quasi-identifiers' text of a group: zip(quasi_identifiers, name), the
\* values as groupby holds them (a tuple, each value in its column's dtype).
GroupName(quasi_identifiers, name) ==
    JoinComma([i \in 1..Min2(Len(quasi_identifiers), Len(name)) |->
                  quasi_identifiers[i] \o ": " \o name[i]])

\* calculate_k_l_values: one row per group, in groupby order.
calculate_k_l_values(df, quasi_identifiers, sensitive_attributes) ==
    LET gs == GroupTuples(df, quasi_identifiers)
    IN [i \in 1..Len(gs) |->
           LET group == RowsOfGroup(df, quasi_identifiers, gs[i])
           IN [key |-> GroupName(quasi_identifiers, gs[i]),
               k |-> Len(group),
               l |-> [a \in 1..Len(sensitive_attributes) |->
                         calculate_normalized_entropy(group, sensitive_attributes[a])]]]

\* calculate_t_closeness: one row per group, in groupby order.
calculate_t_closeness(df, quasi_identifiers, sensitive_attributes) ==
    LET gs == GroupTuples(df, quasi_identifiers)
    IN [i \in 1..Len(gs) |->
           LET group == RowsOfGroup(df, quasi_identifiers, gs[i])
           IN [key |-> GroupName(quasi_identifiers, gs[i]),
               t |-> [a \in 1..Len(sensitive_attributes) |->
                         TScore(df, group, sensitive_attributes[a])]]]

\* The k, l and t conditions of ensure_privacy for group number idx.
GroupConditions(k_l_values, t_value, idx, t_threshold, k_threshold, l_threshold) ==
    /\ k_l_values[idx].k > k_threshold
    /\ \A a \in 1..Len(k_l_values[idx].l) : Gt(k_l_values[idx].l[a], l_threshold)
    /\ \A a \in 1..Len(t_value[idx].t) : Le(t_value[idx].t[a], t_threshold)

\* One iteration of the while loop of ensure_privacy on a non-empty df:
\* [converged, df].
ensure_privacy_pass(df, dtypes, quasi_identifiers, sensitive_attributes, t, k, l) ==
    LET k_l_values == calculate_k_l_values(df, quasi_identifiers, sensitive_attributes)
        t_value == calculate_t_closeness(df, quasi_identifiers, sensitive_attributes)
        ok(idx) == GroupConditions(k_l_values, t_value, idx, t, k, l)
        groups_to_delete == {k_l_values[idx].key : idx \in {i \in 1..Len(k_l_values) : ~ok(i)}}
    IN IF \A idx \in 1..Len(k_l_values) : ok(idx)
       THEN [converged |-> TRUE, df |-> df]
       ELSE [converged |-> FALSE,
             df |-> SelectSeq(df,
                       LAMBDA row : get_key(dtypes, row, quasi_identifiers) \notin groups_to_delete)]

\* ------------------------------------------------- differential privacy noise
\* Numeric values are counted in hundredths.  CellValue is the value of a cell
\* text, FloatText is str() of a float64 value.
CellValue(v) ==
    CASE v = "30" -> 3000
      [] v = "40" -> 4000
      [] v = "1" -> 100
      [] v = "0.5" -> 50
      [] v = "1.5" -> 150

DigitText(d) ==
    CASE d = 0 -> "0" [] d = 1 -> "1" [] d = 2 -> "2" [] d = 3 -> "3" [] d = 4 -> "4"
      [] d = 5 -> "5" [] d = 6 -> "6" [] d = 7 -> "7" [] d = 8 -> "8" [] d = 9 -> "9"

RECURSIVE NatText(_)
NatText(n) == IF n < 10 THEN DigitText(n) ELSE NatText(n \div 10) \o DigitText(n % 10)

\* repr of the float64 h / 100: at least one decimal, no trailing zero after it.
FloatText(h) ==
    LET a == Abs(h)
        frac == a % 100
    IN (IF h < 0 THEN "-" ELSE "") \o NatText(a \div 100) \o "."
       \o (IF frac % 10 = 0 THEN DigitText(frac \div 10)
           ELSE DigitText(frac \div 10) \o DigitText(frac % 10))

\* The outcomes of the generator that are followed: np.random.random() as a
\* rational in [0, 1), the standard Laplace variate behind np.random.laplace in
\* hundredths, and the draw np.random.choice maps onto an index.
UniformDraws == {<<0, 1>>, <<1, 2>>}
LaplaceDraws == {-10, 10}
ChoiceDraws == {0, 1, 2}

\* np.random.choice(categories) for the draw r.
np_random_choice(categories, r) == categories[(r % Len(categories)) + 1]

\* add_randomized_response(value, categories, p) for the draws u and r; ok is
\* FALSE when np.random.choice raises ValueError on an empty array.
add_randomized_response_inclusive(value, categories, p, u, r) ==
    IF Le(u, p) THEN [ok |-> TRUE, value |-> value]
    ELSE IF Len(categories) = 0 THEN [ok |-> FALSE, value |-> value]
    ELSE [ok |-> TRUE, value |-> np_random_choice(categories, r)]
add_randomized_response(value, categories, p, u, r) ==
    IF Gt(p, u) THEN [ok |-> TRUE, value |-> value]
    ELSE IF Len(categories) = 0 THEN [ok |-> FALSE, value |-> value]
    ELSE [ok |-> TRUE, value |-> np_random_choice(categories, r)]

\* The noise np.random.laplace(loc=0, scale=scale) makes of the standard
\* variate z: scale * z.  No draw moves a scale of 0.
laplace_unscaled(sensitivity, epsilon, z) == z
laplace(sensitivity, epsilon, z) == (sensitivity * z) \div (100 * epsilon)

\* scale = sensitivity / epsilon on numpy scalars: x / 0 is inf or nan (a
\* warning, no exception).  np.random.laplace raises ValueError("scale < 0") when
\* the sign bit of scale is set, which it is for 0 / epsilon = -0.0 as well; an
\* empty column has sensitivity nan, which passes the test.
ScaleIsNegative(column, sensitivity, epsilon) == Len(column) > 0 /\ epsilon < 0

\* str() of value + inf * z, and of value + nan.
InfiniteNoiseText(sensitivity, z) ==
    IF sensitivity = 0 THEN "nan" ELSE IF z < 0 THEN "-inf" ELSE "inf"

\* add_laplace_noise(column, sensitivity, epsilon): column + noise, a float64
\* column.  column is the sequence of the cell texts, zs the draws; ok is FALSE
\* when np.random.laplace raises.
add_laplace_noise(column, sensitivity, epsilon, zs) ==
    IF ScaleIsNegative(column, sensitivity, epsilon) THEN [ok |-> FALSE, column |-> column]
    ELSE [ok |-> TRUE,
          column |-> [i \in 1..Len(column) |->
                        IF epsilon = 0 THEN InfiniteNoiseText(sensitivity, zs[i])
                        ELSE FloatText(CellValue(column[i]) + laplace(sensitivity, epsilon, zs[i]))]]

\* df[column], df[column].max() - df[column].min() and df[column].unique().
Column(df, column) == [i \in 1..Len(df) |-> df[i][column]]
Sensitivity(df, column) ==
    LET vals == {CellValue(df[i][column]) : i \in 1..Len(df)}
    IN IF vals = {} THEN 0
       ELSE (CHOOSE x \in vals : \A y \in vals : y <= x) - (CHOOSE x \in vals : \A y \in vals : x <= y)
Unique(df, column) ==
    LET firsts == SelectSeq([i \in 1..Len(df) |-> i],
                            LAMBDA i : \A j \in 1..(i - 1) : df[j][column] # df[i][column])
    IN [n \in 1..Len(firsts) |-> df[firsts[n]][column]]

\* noisy_df[column] = values
SetEveryColumn(df, column, values) == [i \in 1..Len(df) |-> [c \in DOMAIN df[i] |-> IF c = "idx" THEN df[i][c] ELSE values[i]]]
SetColumn(df, column, values) == [i \in 1..Len(df) |-> [df[i] EXCEPT ![column] = values[i]]]

\* The loop over numerical_columns[from..]; str - str raises TypeError on an
\* object column.
RECURSIVE NoiseNumerical(_, _, _, _, _, _, _)
NoiseNumerical(df, dtypes, numerical_columns, epsilon, zs, from, noisy) ==
    IF from > Len(numerical_columns) THEN noisy
    ELSE LET column == numerical_columns[from]
         IN IF ~noisy.ok \/ (dtypes[column] = "object" /\ Len(df) > 0)
            THEN [noisy EXCEPT !.ok = FALSE]
            ELSE LET res == add_laplace_noise(Column(df, column), Sensitivity(df, column),
                                              epsilon, zs[column])
                 IN IF ~res.ok THEN [noisy EXCEPT !.ok = FALSE]
                    ELSE NoiseNumerical(df, dtypes, numerical_columns, epsilon, zs, from + 1,
                           [ok |-> TRUE,
                            df |-> SetColumn(noisy.df, column, res.column),
                            dtypes |-> [noisy.dtypes EXCEPT ![column] = "float64"]])

\* The loop over categorical_columns[from..], with p = 0.5.
RECURSIVE NoiseCategorical(_, _, _, _, _, _)
NoiseCategorical(df, dtypes, categorical_columns, draws, from, noisy) ==
    IF from > Len(categorical_columns) \/ ~noisy.ok THEN noisy
    ELSE LET column == categorical_columns[from]
             categories == Unique(df, column)
             res == [i \in 1..Len(df) |->
                        add_randomized_response(df[i][column], categories, <<1, 2>>,
                                                draws[column][i].u, draws[column][i].r)]
         IN NoiseCategorical(df, dtypes, categorical_columns, draws, from + 1,
              [ok |-> \A i \in 1..Len(df) : res[i].ok,
               df |-> SetColumn(noisy.df, column, [i \in 1..Len(df) |-> res[i].value]),
               dtypes |-> [noisy.dtypes EXCEPT ![column] = dtypes[column]]])

\* add_noise_to_df(df, categorical_columns, numerical_columns, epsilon) for the
\* draws zs and draws (one per column and row).  input is the caller's frame
\* after the call, df the frame that is returned.
add_noise_in_place(df, dtypes, categorical_columns, numerical_columns, epsilon, zs, draws) ==
    LET noisy == NoiseCategorical(df, dtypes, categorical_columns, draws, 1,
                    NoiseNumerical(df, dtypes, numerical_columns, epsilon, zs, 1,
                                   [ok |-> TRUE, df |-> df, dtypes |-> dtypes]))
    IN [ok |-> noisy.ok, input |-> noisy.df, df |-> noisy.df, dtypes |-> noisy.dtypes]
add_noise_to_df(df, dtypes, categorical_columns, numerical_columns, epsilon, zs, draws) ==
    LET noisy_df == df   \* df.copy()
        noisy == NoiseCategorical(df, dtypes, categorical_columns, draws, 1,
                    NoiseNumerical(df, dtypes, numerical_columns, epsilon, zs, 1,
                                   [ok |-> TRUE, df |-> noisy_df, dtypes |-> dtypes]))
    IN [ok |-> noisy.ok, input |-> df, df |-> noisy.df, dtypes |-> noisy.dtypes]

\* ------------------------------------------- the steps of a concurrent call
\* enforce_privacy after its three tables are built: the invalid keys, then
\* data.apply(get_key, axis=1) and data[mask].copy().  source is the caller's
\* dataset after the step, df the frame that is returned.
filter_in_place(data, dtypes, quasi_idents, k_df, l_df, t_df, t_thresh, k_thresh, l_thresh) ==
    LET invalid_keys == InvalidKeys(k_df, l_df, t_df, t_thresh, k_thresh, l_thresh)
        data_filtered == SelectSeq(data,
                            LAMBDA row : get_key(dtypes, row, quasi_idents) \notin invalid_keys)
    IN [source |-> data_filtered, df |-> data_filtered]
filter_invalid(data, dtypes, quasi_idents, k_df, l_df, t_df, t_thresh, k_thresh, l_thresh) ==
    LET invalid_keys == InvalidKeys(k_df, l_df, t_df, t_thresh, k_thresh, l_thresh)
        data_filtered == SelectSeq(data,
                            LAMBDA row : get_key(dtypes, row, quasi_idents) \notin invalid_keys)
    IN [source |-> data, df |-> data_filtered]

\* P_29_score after its three tables are built.
score_of_tables(k_df, l_df, t_df, w) ==
    LET privEval == validate_privacy(k_df, l_df, t_df)
        normalized_l == MeanOfColumnMeans(l_df)
        normalized_t == MeanOfColumnMeans(compute_normalize_t_values(t_df))
        min_k == IF privEval.min_k = 0 THEN NaN ELSE <<privEval.min_k, 1>>
        score == RAdd(RAdd(RMul(w.k, RSub(<<1, 1>>, RDiv(<<1, 1>>, min_k))),
                           RMul(w.l, normalized_l)),
                      RMul(w.t, RSub(<<1, 1>>, normalized_t)))
    IN [ok |-> TRUE,
        score |-> IF Len(privEval.reasons) > 0 THEN <<0, 1>> ELSE score,
        problematic_info |-> privEval.problematic_info,
        reasons |-> privEval.reasons,
        min_k |-> privEval.min_k,
        min_l |-> privEval.min_l,
        max_t |-> privEval.max_t]

\* ------------------------------------------------- column selection check
\* set(seq)
SetOf(seq) == {seq[i] : i \in 1..Len(seq)}

\* privacy/helpers.py validate_column_selection: the selected columns are
\* exactly the columns and no column is on both lists.
validate_column_selection_cover_only(columns, categorical_cols, numerical_cols) ==
    SetOf(categorical_cols \o numerical_cols) = SetOf(columns)
validate_column_selection(columns, categorical_cols, numerical_cols) ==
    LET selected_cols == categorical_cols \o numerical_cols
    IN /\ SetOf(selected_cols) = SetOf(columns)
       /\ SetOf(categorical_cols) \cap SetOf(numerical_cols) = {}

\* app.py validate_column_selection, by the truth value `if not ...` gives
\* what it returns: False, or the first non-empty list (the empty list when
\* both are empty).
app_validate_column_selection(columns, categorical_columns, numerical_columns) ==
    LET selected_columns == categorical_columns \o numerical_columns
    IN /\ SetOf(selected_columns) = SetOf(columns)
       /\ (Len(categorical_columns) > 0 \/ Len(numerical_columns) > 0)

\* ------------------------------------------------------------------ state
\* Largest number of iterations of the ensure_privacy loop that are followed.
MaxPasses == 5

\* Largest number of rows of a dataset the noise functions are called on.
MaxNoiseRows == 2

\* Largest number of rows of the uploaded file of a session with several requests.
MaxSessionRows == 2

\* Largest number of rows of a dataset two concurrent callers share.
MaxSharedRows == 2

\* Default thresholds and weights of the entry points.
DefaultK == 1
DefaultL == <<0, 1>>
DefaultT == <<1, 2>>
DefaultWeights == [k |-> <<1, 2>>, l |-> <<1, 4>>, t |-> <<1, 4>>]

\* The column selections and the threshold settings callers are given.
ColumnConfigs ==
    { [quasi |-> <<"age", "gender">>, sens |-> <<"diagnosis">>],
      [quasi |-> <<"age">>, sens |-> <<"gender", "diagnosis">>],
      [quasi |-> <<"diagnosis">>, sens |-> <<"age">>] }

\* Selections the entry points are documented to refuse: no quasi-identifier,
\* and a column that is on both lists.
InvalidConfigs ==
    { [quasi |-> <<>>, sens |-> <<"diagnosis">>],
      [quasi |-> <<"age">>, sens |-> <<"age", "diagnosis">>] }

ThresholdSettings ==
    { [k |-> DefaultK, l |-> DefaultL, t |-> DefaultT],
      [k |-> DefaultK, l |-> <<7, 10>>, t |-> DefaultT],
      [k |-> 2, l |-> DefaultL, t |-> <<1, 4>>] }

WeightSettings == {DefaultWeights, [k |-> <<1, 4>>, l |-> <<1, 4>>, t |-> <<1, 2>>]}

\* The column lists, privacy budgets and probabilities the noise functions are given.
NoiseSelections ==
    { [categorical_columns |-> <<>>, numerical_columns |-> <<"age">>],
      [categorical_columns |-> <<"diagnosis">>, numerical_columns |-> <<>>],
      [categorical_columns |-> <<>>, numerical_columns |-> <<"diagnosis">>] }
Epsilons == {-1, 0, 1, 2}
Probabilities == {<<0, 1>>, <<1, 2>>, <<1, 1>>}

\* The selections a differential-privacy form posts, and its fixed epsilon.
\* Which of them is valid depends on the lists the session holds: the first when
\* every column is on one of them, the second when gender is on neither.
FormSelections ==
    { [categorical_columns |-> <<>>, numerical_columns |-> <<>>],
      [categorical_columns |-> <<"gender">>, numerical_columns |-> <<>>],
      [categorical_columns |-> <<"gender">>, numerical_columns |-> <<"gender">>],
      [categorical_columns |-> <<"gender">>, numerical_columns |-> <<"age">>] }
HandlerEpsilon == 2

\* The column lists validate_column_selection is given.
ColumnLists == {<<>>, <<"gender">>, <<"diagnosis">>, <<"gender", "diagnosis">>}
ResponseDraws == {[u |-> <<0, 1>>, r |-> 0]} \cup {[u |-> <<1, 2>>, r |-> r] : r \in ChoiceDraws}

VARIABLES
    data,      \* the dataset the caller passes to the call
    dtypes,    \* the dtypes of its columns
    cols,      \* the caller's quasi-identifier and sensitive column lists
    thr,       \* the caller's thresholds
    pc,        \* "ready", "evaluated", "rejected", "enforced", "entered", "ensuring",
               \* "converged", "noised", "responded", "validated", "processed", "idle", "concurrent", "raised"
    op,        \* the entry point of the call: "none", "P_29_score", "enforce_privacy", "ensure_privacy"
    calls,     \* number of calls made on this dataset and what they returned
    report,    \* what P_29_score returned
    weights,   \* the weights w_k, w_l, w_t the last P_29_score call was given
    session,   \* the column selections kept in the Flask session
    out,       \* the dataset enforce_privacy / ensure_privacy returned, or the loop's df
    before,    \* the df at the start of the last loop iteration
    passes,    \* iterations of the ensure_privacy loop that removed rows
    first,     \* what the first call of a chain was given and returned
    noisy,     \* what add_noise_to_df was given and returned
    rr,        \* what add_randomized_response was given and returned
    vcs,       \* what the two validate_column_selection were given and returned
    thread     \* the two concurrent callers: their call, position, tables and result

vars == <<data, dtypes, cols, thr, pc, op, calls, report, weights, session, out, before, passes,
          first, noisy, rr, vcs, thread>>

Datasets(cellset) == UNION {[1..n -> cellset] : n \in 0..MaxRows}

Range(seq) == {seq[i] : i \in 1..Len(seq)}

\* The values a column of a dataset with these dtypes can hold.
ColumnValues(dt, column) ==
    {c[column] : c \in IF dt = ObjectDtypes THEN ObjectCells ELSE NumericCells}

NoFirst == [op |-> "none", arg |-> <<>>, df |-> <<>>]

NoSession == [quasi_identifiers |-> <<>>, sensitive_attributes |-> <<>>,
              categorical_columns |-> <<>>, numerical_columns |-> <<>>]

NoNoise == [categorical_columns |-> <<>>, numerical_columns |-> <<>>, epsilon |-> 0,
            input |-> <<>>, df |-> <<>>, dtypes |-> ObjectDtypes]

NoResponse == [value |-> "", categories |-> <<>>, p |-> <<0, 1>>, result |-> ""]

NoTable == [ok |-> FALSE]

NoThread == [op |-> "none", pc |-> "idle", cols |-> [quasi |-> <<>>, sens |-> <<>>],
             k_df |-> NoTable, l_df |-> NoTable, t_df |-> NoTable,
             ok |-> FALSE, df |-> <<>>, report |-> NoReport]

Threads == {1, 2}

NoValidation == [columns |-> <<>>, categorical_cols |-> <<>>, numerical_cols |-> <<>>,
                 valid |-> FALSE, app_valid |-> FALSE]

InitWith(configs) ==
    /\ \/ /\ dtypes = ObjectDtypes
          /\ \E cells \in Datasets(ObjectCells) : data = Labelled(cells)
       \/ /\ dtypes = NumericDtypes
          /\ \E cells \in Datasets(NumericCells) : data = Labelled(cells)
    /\ cols \in configs
    /\ thr \in ThresholdSettings
    /\ pc = "ready"
    /\ op = "none"
    /\ calls = 0
    /\ report = NoReport
    /\ weights = DefaultWeights
    /\ session = NoSession
    /\ out = <<>>
    /\ before = <<>>
    /\ passes = 0
    /\ first = NoFirst
    /\ noisy = NoNoise
    /\ rr = NoResponse
    /\ vcs = NoValidation
    /\ thread = [t \in Threads |-> NoThread]

Init == InitWith(ColumnConfigs)

\* The callers' selections are not restricted to the valid ones.
InitAnyConfig == InitWith(ColumnConfigs \cup InvalidConfigs)

\* The thresholds privacy_processing reads from a session that holds none, and
\* the states in which a session takes a request of the privacy routes: its
\* first request, or one after a response.
SessionThresholds == [k |-> DefaultK, l |-> DefaultL, t |-> DefaultT]
InSession == thr = SessionThresholds /\ (pc = "idle" \/ (pc = "ready" /\ calls = 0))

\* evaluate: P_29_score(data, quasi_idents, sens_attr, w_k, w_l, w_t).
Evaluate ==
    /\ pc = "ready"
    /\ \E w \in WeightSettings :
          /\ weights' = w
          /\ report' = P_29_score(data, dtypes, cols.quasi, cols.sens, w)
    /\ pc' = IF report'.ok THEN "evaluated" ELSE "raised"
    /\ op' = "P_29_score"
    /\ calls' = calls + 1
    /\ UNCHANGED <<data, dtypes, cols, thr, session, out, before, passes, first, noisy, rr, vcs,
                   thread>>

\* set(quasi_idents) & set(sens_attr) is not empty.
Overlap(quasi_idents, sens_attr) ==
    \E i \in 1..Len(quasi_idents) : \E j \in 1..Len(sens_attr) : quasi_idents[i] = sens_attr[j]

\* DataP29ScoreHandler.handle_score_calculation: the selections of the form are
\* stored in the session, then validated; P_29_score is called with its default
\* weights on the selections that pass.  pc = "rejected": _ctx["error"] is set.
HandleScoreCalculation ==
    /\ InSession
    /\ op' = "handle_score_calculation"
    /\ calls' = calls + 1
    /\ session' = [session EXCEPT !.quasi_identifiers = cols.quasi,
                                  !.sensitive_attributes = cols.sens]
    /\ IF Overlap(cols.quasi, cols.sens) \/ Len(cols.quasi) = 0 \/ Len(cols.sens) = 0
       THEN /\ pc' = "rejected"
            /\ UNCHANGED <<report, weights>>
       ELSE /\ weights' = DefaultWeights
            /\ report' = P_29_score(data, dtypes, cols.quasi, cols.sens, DefaultWeights)
            /\ pc' = IF report'.ok THEN "evaluated" ELSE "raised"
    /\ UNCHANGED <<data, dtypes, cols, thr, out, before, passes, first, noisy, rr, vcs, thread>>

\* enforce: enforce_privacy(data, quasi_idents, sens_attr, t, k, l).
EnforcePrivacy ==
    /\ pc = "ready"
    /\ LET res == enforce_privacy(data, dtypes, cols.quasi, cols.sens, thr.t, thr.k, thr.l)
       IN /\ pc' = IF res.ok THEN "enforced" ELSE "raised"
          /\ out' = res.df
    /\ op' = "enforce_privacy"
    /\ calls' = calls + 1
    /\ passes' = 0
    /\ before' = data
    /\ UNCHANGED <<data, dtypes, cols, thr, report, weights, session, first, noisy, rr, vcs,
                   thread>>

\* enforce: ensure_privacy(df, ...) is entered; df is the caller's dataset.
EnsureBegin ==
    /\ pc = "ready"
    /\ pc' = "entered"
    /\ op' = "ensure_privacy"
    /\ calls' = calls + 1
    /\ out' = data
    /\ before' = data
    /\ passes' = 0
    /\ UNCHANGED <<data, dtypes, cols, thr, report, weights, session, first, noisy, rr, vcs,
                   thread>>

\* One iteration of `while True`.  On an empty df the frames have no columns
\* and k_l_values['k-anonymity'] raises KeyError; with no quasi-identifier the
\* groupby of calculate_k_l_values raises ValueError.
EnsurePass ==
    /\ pc \in {"entered", "ensuring"}
    /\ passes < MaxPasses
    /\ before' = out
    /\ IF Len(out) = 0 \/ GroupbyRaises(out, cols.quasi)
       THEN /\ pc' = "raised"
            /\ UNCHANGED <<out, passes>>
       ELSE LET res == ensure_privacy_pass(out, dtypes, cols.quasi, cols.sens,
                                           thr.t, thr.k, thr.l)
            IN /\ out' = res.df
               /\ pc' = IF res.converged THEN "converged" ELSE "ensuring"
               /\ passes' = IF res.converged THEN passes ELSE passes + 1
    /\ UNCHANGED <<data, dtypes, cols, thr, op, calls, report, weights, session, first, noisy,
                   rr, vcs, thread>>

\* The caller passes the dataset it was returned to the engine again.
CallAgain ==
    /\ pc \in {"enforced", "converged"}
    /\ calls < MaxCalls
    /\ first' = IF calls = 1 THEN [op |-> op, arg |-> data, df |-> out] ELSE first
    /\ data' = out
    /\ pc' = "ready"
    /\ UNCHANGED <<dtypes, cols, thr, op, calls, report, weights, session, out, before, passes,
                   noisy, rr, vcs, thread>>

\* add_noise: add_noise_to_df(data, categorical_columns, numerical_columns, epsilon)
\* on a dataset as it was loaded; the generator's outcomes are any of the draws.
\* The noise functions read no threshold: they are followed for the callers
\* that hold the default ones.
AddNoise ==
    /\ pc = "ready" /\ calls = 0
    /\ thr = SessionThresholds
    /\ Len(data) <= MaxNoiseRows
    /\ \E sel \in NoiseSelections, epsilon \in Epsilons :
       \E zs \in [Range(sel.numerical_columns) -> [1..Len(data) -> LaplaceDraws]] :
       \E draws \in [Range(sel.categorical_columns) -> [1..Len(data) -> ResponseDraws]] :
          LET res == add_noise_to_df(data, dtypes, sel.categorical_columns,
                                     sel.numerical_columns, epsilon, zs, draws)
          IN /\ noisy' = [categorical_columns |-> sel.categorical_columns,
                          numerical_columns |-> sel.numerical_columns,
                          epsilon |-> epsilon, input |-> data,
                          df |-> res.df, dtypes |-> res.dtypes]
             /\ data' = res.input
             /\ pc' = IF res.ok THEN "noised" ELSE "raised"
    /\ op' = "add_noise_to_df"
    /\ calls' = calls + 1
    /\ UNCHANGED <<dtypes, cols, thr, report, weights, session, out, before, passes, first, rr, vcs,
                   thread>>

\* add_randomized_response(value, categories, p) on a value and the distinct
\* values of a column of the dataset.
RandomizedResponse ==
    /\ pc = "ready" /\ calls = 0
    /\ thr = SessionThresholds
    /\ Len(data) <= MaxNoiseRows
    /\ \E column \in {"gender", "diagnosis"}, p \in Probabilities, d \in ResponseDraws :
       \E value \in ColumnValues(dtypes, column) :
          LET categories == Unique(data, column)
              res == add_randomized_response(value, categories, p, d.u, d.r)
          IN /\ rr' = [value |-> value, categories |-> categories, p |-> p,
                       result |-> res.value]
             /\ pc' = IF res.ok THEN "responded" ELSE "raised"
    /\ op' = "add_randomized_response"
    /\ calls' = calls + 1
    /\ UNCHANGED <<data, dtypes, cols, thr, report, weights, session, out, before, passes, first,
                   noisy, vcs, thread>>

\* validate_column_selection(columns, categorical_cols, numerical_cols), of
\* privacy/helpers.py and of app.py.
ValidateColumnSelection ==
    /\ InSession /\ pc = "ready"
    /\ Len(data) <= MaxSessionRows
    /\ \E columns \in ColumnLists, categorical_cols \in ColumnLists, numerical_cols \in ColumnLists :
          vcs' = [columns |-> columns, categorical_cols |-> categorical_cols,
                  numerical_cols |-> numerical_cols,
                  valid |-> validate_column_selection(columns, categorical_cols, numerical_cols),
                  app_valid |-> app_validate_column_selection(columns, categorical_cols,
                                                              numerical_cols)]
    /\ pc' = "validated"
    /\ op' = "validate_column_selection"
    /\ calls' = calls + 1
    /\ UNCHANGED <<data, dtypes, cols, thr, report, weights, session, out, before, passes, first,
                   noisy, rr, thread>>

\* pd.read_csv of a file written by df.to_csv(index=False): the rows are
\* labelled anew.
Reload(df) == [i \in 1..Len(df) |-> [df[i] EXCEPT !.idx = i]]

\* PrivacyProcessingHandler.handle_p29_score: the file is loaded (an empty one
\* is refused), the lists are read from the session, the thresholds are the
\* session defaults; enforce_privacy(df), save of the filtered frame, then
\* P_29_score(df) on the frame that was loaded.  before: the frame enforce_privacy
\* was given, empty when it was not called.
HandleP29Score ==
    /\ InSession
    /\ Len(data) <= MaxSessionRows
    /\ op' = "handle_p29_score"
    /\ calls' = calls + 1
    /\ LET df == data
           quasi_idents == session.quasi_identifiers
           sens_attr == session.sensitive_attributes
       IN IF Len(df) = 0 \/ Len(quasi_idents) = 0 \/ Len(sens_attr) = 0
          THEN /\ pc' = IF Len(df) = 0 THEN "raised" ELSE "rejected"
               /\ before' = <<>>
               /\ UNCHANGED <<data, out, report, weights>>
          ELSE LET res == enforce_privacy(df, dtypes, quasi_idents, sens_attr,
                                          SessionThresholds.t, SessionThresholds.k,
                                          SessionThresholds.l)
               IN /\ before' = df
                  /\ IF ~res.ok
                     THEN /\ pc' = "raised"
                          /\ UNCHANGED <<data, out, report, weights>>
                     ELSE /\ out' = res.df
                          /\ data' = Reload(res.df)
                          /\ weights' = DefaultWeights
                          /\ report' = P_29_score(df, dtypes, quasi_idents, sens_attr,
                                                  DefaultWeights)
                          /\ pc' = IF report'.ok THEN "processed" ELSE "raised"
    /\ UNCHANGED <<dtypes, cols, thr, session, passes, first, noisy, rr, vcs, thread>>

\* [col for col in all_columns if col not in quasi_idents + sensitive_attr]
other_columns(quasi_idents, sensitive_attr) ==
    SelectSeq(Columns, LAMBDA col : col \notin SetOf(quasi_idents \o sensitive_attr))

\* DifferentialPrivacyHandler.handle_add_noise: the posted selection is
\* validated against the columns that are on neither session list; a valid one
\* is stored in the session, noise is added with epsilon = 2.0 and the noisy
\* frame is saved.  vcs keeps the validation that was made.
HandleAddNoise ==
    /\ InSession
    /\ Len(data) <= MaxSessionRows
    /\ op' = "handle_add_noise"
    /\ calls' = calls + 1
    /\ IF Len(data) = 0
       THEN /\ pc' = "raised"
            /\ UNCHANGED <<data, dtypes, session, noisy, vcs>>
       ELSE \E sel \in FormSelections :
            LET columns == other_columns(session.quasi_identifiers, session.sensitive_attributes)
                categorical == sel.categorical_columns
                numerical == sel.numerical_columns
                valid == validate_column_selection(columns, categorical, numerical)
            IN /\ vcs' = [columns |-> columns, categorical_cols |-> categorical,
                          numerical_cols |-> numerical, valid |-> valid,
                          app_valid |-> app_validate_column_selection(columns, categorical,
                                                                      numerical)]
               /\ IF ~valid
                  THEN /\ pc' = "rejected"
                       /\ UNCHANGED <<data, dtypes, session, noisy>>
                  ELSE /\ session' = [session EXCEPT !.categorical_columns = categorical,
                                                     !.numerical_columns = numerical]
                       /\ \E zs \in [Range(numerical) -> [1..Len(data) -> LaplaceDraws]] :
                          \E draws \in [Range(categorical) -> [1..Len(data) -> ResponseDraws]] :
                             LET res == add_noise_to_df(data, dtypes, categorical, numerical,
                                                        HandlerEpsilon, zs, draws)
                             IN /\ noisy' = [categorical_columns |-> categorical,
                                             numerical_columns |-> numerical,
                                             epsilon |-> HandlerEpsilon, input |-> data,
                                             df |-> res.df, dtypes |-> res.dtypes]
                                /\ data' = IF res.ok THEN Reload(res.df) ELSE data
                                /\ dtypes' = IF res.ok THEN res.dtypes ELSE dtypes
                                /\ pc' = IF res.ok THEN "noised" ELSE "raised"
    /\ UNCHANGED <<cols, thr, report, weights, out, before, passes, first, rr, thread>>

\* The requests of a session: after a response the session waits for the next
\* request.  Sessions are followed up to the noise step.
HandlerOps == {"handle_score_calculation", "handle_p29_score", "handle_add_noise"}
NextRequest ==
    /\ op \in HandlerOps
    /\ pc \in {"evaluated", "processed", "rejected", "raised"}
    /\ calls < MaxCalls
    /\ Len(data) <= MaxSessionRows
    /\ thr = SessionThresholds
    /\ pc' = "idle"
    /\ UNCHANGED <<data, dtypes, cols, thr, op, calls, report, weights, session, out, before,
                   passes, first, noisy, rr, vcs, thread>>

\* Two callers start P_29_score or enforce_privacy on the same dataset, each
\* with its own column lists and the default thresholds.  before keeps the
\* dataset as it was.
SecondConfig == [quasi |-> <<"age">>, sens |-> <<"gender", "diagnosis">>]
Fork ==
    /\ pc = "ready" /\ calls = 0
    /\ thr = SessionThresholds
    /\ Len(data) <= MaxSharedRows
    /\ \E op1 \in {"P_29_score", "enforce_privacy"}, op2 \in {"P_29_score", "enforce_privacy"} :
       \E cols2 \in {cols, SecondConfig} :
          thread' = [t \in Threads |->
                       [NoThread EXCEPT !.op = IF t = 1 THEN op1 ELSE op2,
                                        !.pc = "k",
                                        !.cols = IF t = 1 THEN cols ELSE cols2]]
    /\ pc' = "concurrent"
    /\ op' = "concurrent"
    /\ calls' = calls + 1
    /\ before' = data
    /\ UNCHANGED <<data, dtypes, cols, thr, report, weights, session, out, passes, first, noisy,
                   rr, vcs>>

\* One caller builds its next table from the dataset, or finishes: a raising
\* evaluator ends the call.
ThreadStep(t) ==
    /\ pc = "concurrent"
    /\ thread[t].pc \in {"k", "l", "t", "finish"}
    /\ LET me == thread[t]
           quasi_idents == me.cols.quasi
           sens_attr == me.cols.sens
           k_df == k_anonymity_for_sensitive_attr(data, dtypes, quasi_idents)
           l_df == normalized_entropy_for_sensitive_attr(data, dtypes, quasi_idents, sens_attr)
           t_df == t_closeness_for_sensitive_attr(data, dtypes, quasi_idents, sens_attr)
           res == filter_invalid(data, dtypes, quasi_idents, me.k_df, me.l_df, me.t_df,
                                 thr.t, thr.k, thr.l)
       IN CASE me.pc = "k" ->
                 /\ thread' = [thread EXCEPT ![t].k_df = k_df,
                                             ![t].pc = IF k_df.ok THEN "l" ELSE "done"]
                 /\ data' = data
            [] me.pc = "l" ->
                 /\ thread' = [thread EXCEPT ![t].l_df = l_df,
                                             ![t].pc = IF l_df.ok THEN "t" ELSE "done"]
                 /\ data' = data
            [] me.pc = "t" ->
                 /\ thread' = [thread EXCEPT ![t].t_df = t_df,
                                             ![t].pc = IF t_df.ok THEN "finish" ELSE "done"]
                 /\ data' = data
            [] me.pc = "finish" /\ me.op = "enforce_privacy" ->
                 /\ thread' = [thread EXCEPT ![t].ok = TRUE, ![t].df = res.df, ![t].pc = "done"]
                 /\ data' = res.source
            [] me.pc = "finish" /\ me.op = "P_29_score" ->
                 /\ thread' = [thread EXCEPT
                                  ![t].ok = TRUE,
                                  ![t].report = score_of_tables(me.k_df, me.l_df, me.t_df,
                                                                DefaultWeights),
                                  ![t].pc = "done"]
                 /\ data' = data
    /\ UNCHANGED <<dtypes, cols, thr, pc, op, calls, report, weights, session, out, before, passes,
                   first, noisy, rr, vcs>>

Next ==
    \/ Evaluate \/ HandleScoreCalculation
    \/ EnforcePrivacy \/ EnsureBegin \/ EnsurePass \/ CallAgain
    \/ AddNoise \/ RandomizedResponse \/ ValidateColumnSelection
    \/ HandleP29Score \/ HandleAddNoise \/ NextRequest
    \/ Fork \/ \E t \in Threads : ThreadStep(t)

Spec == Init /\ [][Next]_vars

SpecAnyConfig == InitAnyConfig /\ [][Next]_vars

\* ====================================================== stated properties
\* The metrics as the specification defines them, computed on a dataset directly.
Classes(df, quasi) == {GroupTuple(df[i], quasi) : i \in 1..Len(df)}

\* "col1: val1, col2: val2" in quasi-identifier order.
CanonicalKey(quasi, g) ==
    JoinComma([i \in 1..Len(quasi) |-> quasi[i] \o ": " \o g[i]])

\* H / log2(distinct values in the whole dataset), 0 for a single-valued column.
SpecL(df, rows, col) ==
    IF Cardinality(Distinct(df, col)) <= 1 THEN <<0, 1>>
    ELSE <<EntropyTimesN(rows, col), Len(rows) * Log2Milli(Cardinality(Distinct(df, col)))>>

\* Total variation distance between the class and the dataset.
SpecT(df, rows, col) ==
    LET U == Distinct(df, col)
    IN <<SumOver(U, [v \in U |-> Abs(Count(rows, col, v) * Len(df) - Count(df, col, v) * Len(rows))]),
         2 * Len(rows) * Len(df)>>

SpecViolates(df, g) ==
    LET rows == RowsOfGroup(df, cols.quasi, g)
    IN \/ Len(rows) <= thr.k
       \/ \E c \in 1..Len(cols.sens) : Le(SpecL(df, rows, cols.sens[c]), thr.l)
       \/ \E c \in 1..Len(cols.sens) : Gt(SpecT(df, rows, cols.sens[c]), thr.t)

Reported(key, reason) ==
    \E i \in 1..Len(report.problematic_info) : report.problematic_info[i] = <<key, reason>>

Returned == pc \in {"enforced", "converged"}

\* C1: when enforce returns, every equivalence class of the returned dataset,
\* with k, l and t recomputed on the returned dataset, meets the thresholds.
C1_ReturnedClassesMeetThresholds ==
    Returned => \A g \in Classes(out, cols.quasi) : ~SpecViolates(out, g)

\* C2: enforce is idempotent: enforcing what a first enforce returned returns,
\* and returns exactly the rows it was given.
C2_EnforceIdempotent ==
    (calls = 2 /\ first.op = op /\ op \in {"enforce_privacy", "ensure_privacy"})
        => /\ pc # "raised"
           /\ Returned => (out = first.df /\ out = data)

\* C2 witness: a first ensure_privacy removed rows and kept others, and the
\* second call on its result has returned.
C2_Witness ==
    /\ calls = 2 /\ first.op = "ensure_privacy" /\ op = "ensure_privacy"
    /\ pc = "converged"
    /\ Len(first.df) > 0 /\ Len(first.df) < Len(first.arg)

\* C3: a report with a violation reason (or a listed violation) has score 0.0.
C3_ScoreZeroOnViolation ==
    pc = "evaluated" =>
        ((Len(report.reasons) > 0 \/ Len(report.problematic_info) > 0)
            => report.score = <<0, 1>>)

\* C3 witness: a report with a reason, on a dataset with a class that would
\* score well (three rows or more in one class).
C3_Witness ==
    /\ pc = "evaluated"
    /\ Len(report.reasons) > 0
    /\ report.score = <<0, 1>>
    /\ \E g \in Classes(data, cols.quasi) : Len(RowsOfGroup(data, cols.quasi, g)) >= 3

\* C4: every class / sensitive column pair with normalized entropy <= the l
\* threshold is reported under the class's group key, and the score is then 0.0.
C4_LViolationsReported ==
    pc = "evaluated" =>
        \A g \in Classes(data, cols.quasi) : \A c \in 1..Len(cols.sens) :
            Le(SpecL(data, RowsOfGroup(data, cols.quasi, g), cols.sens[c]), thr.l)
                => /\ Reported(CanonicalKey(cols.quasi, g),
                               "normalized entropy l-value is 0 for " \o cols.sens[c])
                   /\ report.score = <<0, 1>>

\* C5: every class with k <= the caller's k threshold is reported under its
\* group key with a k-anonymity reason ("k-anonymity is 1" for a single row).
KReason(k) ==
    CASE k = 1 -> "k-anonymity is 1"
      [] k = 2 -> "k-anonymity is 2"
      [] OTHER -> "k-anonymity is more"

C5_KViolationsReported ==
    pc = "evaluated" =>
        \A g \in Classes(data, cols.quasi) :
            Len(RowsOfGroup(data, cols.quasi, g)) <= thr.k
                => Reported(CanonicalKey(cols.quasi, g),
                            KReason(Len(RowsOfGroup(data, cols.quasi, g))))

\* C6: the t-closeness violations are exactly the class / sensitive column
\* pairs with t > the caller's t threshold, the reason naming that threshold.
C6_TViolationsExact ==
    pc = "evaluated" =>
        \A g \in Classes(data, cols.quasi) : \A c \in 1..Len(cols.sens) :
            Gt(SpecT(data, RowsOfGroup(data, cols.quasi, g), cols.sens[c]), thr.t)
                <=> Reported(CanonicalKey(cols.quasi, g),
                             "t-value exceeds " \o FloatStr(thr.t) \o " for " \o cols.sens[c])

\* C7: the partitions are pairwise disjoint, cover the row labels of the
\* dataset, and the rows of one partition agree on every quasi-identifier.
Labels(df) == {df[i].idx : i \in 1..Len(df)}
RowWithLabel(df, lab) == df[CHOOSE i \in 1..Len(df) : df[i].idx = lab]

RECURSIVE SumK(_)
SumK(rows) == IF Len(rows) = 0 THEN 0 ELSE rows[1].val + SumK(Tail(rows))

C8_KTableCountsRows ==
    (op \in {"P_29_score", "enforce_privacy"} /\ pc \in {"evaluated", "enforced", "raised"})
        => LET k_df == k_anonymity_for_sensitive_attr(data, dtypes, cols.quasi)
           IN /\ k_df.ok
              /\ Len(k_df.rows) = Cardinality(Classes(data, cols.quasi))
              /\ \A i \in 1..Len(k_df.rows) : k_df.rows[i].val >= 1
              /\ SumK(k_df.rows) = Len(data)

\* C9: every iteration of the enforcement loop that does not converge removes
\* rows, so the loop ends after at most as many iterations as there are classes.
C9_EveryPassRemovesRows ==
    [][(pc \in {"entered", "ensuring"} /\ pc' = "ensuring") => Len(out') < Len(out)]_vars

\* C10: an enforcement pass removes exactly the rows of the violating classes;
\* the other rows stay, unchanged and in their order.
C10_RemovesExactlyViolators ==
    (pc = "enforced" \/ (op = "ensure_privacy" /\ pc \in {"ensuring", "converged"}))
        => out = SelectSeq(before,
                     LAMBDA row : ~SpecViolates(before, GroupTuple(row, cols.quasi)))

\* C11: when every class of the dataset passed in violates the thresholds, the
\* enforce call does not raise and returns the empty dataset.
AllClassesViolate(df) ==
    Len(df) > 0 /\ \A g \in Classes(df, cols.quasi) : SpecViolates(df, g)

C11_AllViolatingReturnsEmpty ==
    (/\ op \in {"enforce_privacy", "ensure_privacy"}
     /\ pc \in {"enforced", "converged", "raised"}
     /\ AllClassesViolate(data))
        => (pc # "raised" /\ out = <<>>)

\* C12: for a sensitive column with exactly one distinct value in the whole
\* dataset, the normalized-entropy table a call computes has an entry for every
\* partition in that column, and the entry is 0 (no error, no missing value).
C12_SingleValuedColumnIsZero ==
    (pc \in {"evaluated", "enforced", "raised"} /\ op \in {"P_29_score", "enforce_privacy"}
        /\ Len(data) > 0)
        => LET l_df == normalized_entropy_for_sensitive_attr(data, dtypes, cols.quasi, cols.sens)
           IN \A c \in 1..Len(cols.sens) :
                 Cardinality(Distinct(data, cols.sens[c])) = 1
                     => /\ l_df.ok
                        /\ Len(l_df.index) = Cardinality(Classes(data, cols.quasi))
                        /\ \A r \in 1..Len(l_df.index) : Eq(l_df.cell[c][r], <<0, 1>>)

\* C13: for every partition and every sensitive column with more than one
\* distinct value in the dataset, the normalized entropy the code computes is
\* H / log2(distinct values in the whole dataset), lies in [0, 1], and is 0
\* exactly when the partition is homogeneous in that column.  Stated for the
\* table of the evaluators and for the values ensure_privacy computes.
EntropyAsSpecified(l, df, rows, col) ==
    /\ Eq(l, SpecL(df, rows, col))
    /\ Le(<<0, 1>>, l) /\ Le(l, <<1, 1>>)
    /\ Eq(l, <<0, 1>>) <=> (Cardinality(Distinct(rows, col)) = 1)

RowsWithLabels(df, labels) ==
    SelectSeq(df, LAMBDA row : \E j \in 1..Len(labels) : labels[j] = row.idx)

C13_NormalizedEntropyFormula ==
    /\ (pc \in {"evaluated", "enforced", "raised"} /\ op \in {"P_29_score", "enforce_privacy"})
        => LET l_df == normalized_entropy_for_sensitive_attr(data, dtypes, cols.quasi, cols.sens)
               P == compute_partition_by_ids(data, cols.quasi)
           IN \A c \in 1..Len(cols.sens) :
                 Cardinality(Distinct(data, cols.sens[c])) > 1
                     => /\ l_df.ok
                        /\ \A i \in 1..Len(P) :
                              LET r == RowOf(l_df, get_group_key_from_partition(
                                                       data, dtypes, P[i], cols.quasi))
                              IN /\ r # 0
                                 /\ EntropyAsSpecified(l_df.cell[c][r], data,
                                        RowsWithLabels(data, P[i]), cols.sens[c])
    /\ (op = "ensure_privacy" /\ pc \in {"ensuring", "converged"})
        => LET k_l_values == calculate_k_l_values(before, cols.quasi, cols.sens)
               gs == GroupTuples(before, cols.quasi)
           IN \A c \in 1..Len(cols.sens) :
                 Cardinality(Distinct(before, cols.sens[c])) > 1
                     => \A i \in 1..Len(gs) :
                           EntropyAsSpecified(k_l_values[i].l[c], before,
                               RowsOfGroup(before, cols.quasi, gs[i]), cols.sens[c])

\* C14: for every partition and sensitive column, the t value in the table a
\* call computes is half the sum over the dataset's values of
\* |local share - global share|, lies in [0, 1], and is 0 when the local
\* distribution equals the global one (as with a single partition).
SameDistribution(df, rows, col) ==
    \A v \in Distinct(df, col) : Count(rows, col, v) * Len(df) = Count(df, col, v) * Len(rows)

C14_TClosenessFormula ==
    (pc \in {"evaluated", "enforced", "raised"} /\ op \in {"P_29_score", "enforce_privacy"})
        => LET t_df == t_closeness_for_sensitive_attr(data, dtypes, cols.quasi, cols.sens)
               P == compute_partition_by_ids(data, cols.quasi)
           IN /\ t_df.ok
              /\ \A c \in 1..Len(cols.sens) : \A i \in 1..Len(P) :
                    LET r == RowOf(t_df, get_group_key_from_partition(
                                             data, dtypes, P[i], cols.quasi))
                        rows == RowsWithLabels(data, P[i])
                    IN /\ r # 0
                       /\ Eq(t_df.cell[c][r], SpecT(data, rows, cols.sens[c]))
                       /\ Le(<<0, 1>>, t_df.cell[c][r]) /\ Le(t_df.cell[c][r], <<1, 1>>)
                       /\ SameDistribution(data, rows, cols.sens[c])
                              => Eq(t_df.cell[c][r], <<0, 1>>)

\* C15: when P_29_score finds no violation on a dataset with rows, the score is
\* w_k*(1 - 1/k_min) + w_l*mean(normalized l) + w_t*(1 - mean of the t values
\* rescaled per column, 0 where max = min), a number in [0, 1].
SpecKMin(df) ==
    LET sizes == {Len(RowsOfGroup(df, cols.quasi, g)) : g \in Classes(df, cols.quasi)}
    IN CHOOSE k \in sizes : \A j \in sizes : k <= j

SpecMeanL(df) ==
    LET gs == GroupTuples(df, cols.quasi)
    IN RMean([c \in 1..Len(cols.sens) |->
           RMean([i \in 1..Len(gs) |->
               SpecL(df, RowsOfGroup(df, cols.quasi, gs[i]), cols.sens[c])])])

SpecMeanRescaledT(df) ==
    LET gs == GroupTuples(df, cols.quasi)
        t(c, i) == SpecT(df, RowsOfGroup(df, cols.quasi, gs[i]), cols.sens[c])
        lo(c) == RMin({t(c, i) : i \in 1..Len(gs)})
        hi(c) == RMax({t(c, i) : i \in 1..Len(gs)})
    IN RMean([c \in 1..Len(cols.sens) |->
           RMean([i \in 1..Len(gs) |->
               IF Gt(hi(c), lo(c))
               THEN RDiv(RSub(t(c, i), lo(c)), RSub(hi(c), lo(c)))
               ELSE <<0, 1>>])])

SpecScore(df, w) ==
    RAdd(RAdd(RMul(w.k, RSub(<<1, 1>>, <<1, SpecKMin(df)>>)),
              RMul(w.l, SpecMeanL(df))),
         RMul(w.t, RSub(<<1, 1>>, SpecMeanRescaledT(df))))

C15_CompositeScore ==
    (pc = "evaluated" /\ Len(report.reasons) = 0 /\ Len(data) > 0)
        => /\ Eq(report.score, SpecScore(data, weights))
           /\ Le(<<0, 1>>, report.score) /\ Le(report.score, <<1, 1>>)

\* C16: a call of evaluate or enforce, on a dataset with rows, with no
\* quasi-identifier or with a column on both lists ends in an error: no score is
\* computed, no pass of the enforcement runs and no dataset is returned.
InvalidConfig(c) == Len(c.quasi) = 0 \/ Overlap(c.quasi, c.sens)

C16_InvalidConfigFailsFast ==
    (InvalidConfig(cols) /\ Len(data) > 0)
        => pc \notin {"evaluated", "enforced", "ensuring", "converged"}

\* The columns of a noise call that are on neither of its lists.
Untouched(call) == Range(Columns) \ (Range(call.categorical_columns) \cup Range(call.numerical_columns))

ConstantColumns(call) ==
    {c \in Range(call.numerical_columns) :
        /\ dtypes[c] # "object"
        /\ \A i, j \in 1..Len(call.input) : call.input[i][c] = call.input[j][c]}

\* C19: add_noise with epsilon > 0 on a numeric column whose values are all equal
\* raises nothing and returns every value of the column as it was (as a float64),
\* whatever the generator draws.
C19_ConstantColumnUnchanged ==
    (op = "add_noise_to_df" /\ pc \in {"noised", "raised"} /\ noisy.epsilon > 0
       /\ Len(noisy.input) > 0 /\ ConstantColumns(noisy) # {}) =>
        /\ pc = "noised"
        /\ \A c \in ConstantColumns(noisy) : \A i \in 1..Len(noisy.df) :
              noisy.df[i][c] = FloatText(CellValue(noisy.input[i][c]))

\* A column of two equal ages was noised.
C19_Witness ==
    /\ op = "add_noise_to_df" /\ pc = "noised"
    /\ Len(noisy.input) = MaxNoiseRows
    /\ "age" \in ConstantColumns(noisy)
    /\ noisy.df[1].age = "30.0"

C21_NonPositiveEpsilonRejected ==
    (op = "add_noise_to_df" /\ noisy.epsilon <= 0
       /\ Len(noisy.input) > 0 /\ Len(noisy.numerical_columns) > 0) => pc = "raised"

\* A selection is valid when the two lists together name exactly the columns
\* and share none.
ExactPartition(columns, categorical, numerical) ==
    /\ Range(categorical) \cup Range(numerical) = Range(columns)
    /\ Range(categorical) \cap Range(numerical) = {}

\* C22: validate_column_selection accepts a selection exactly when the listed
\* columns are all the columns and none is on both lists (a missing, an extra or
\* a doubly listed column is refused; no columns with no selection is accepted).
\* Stated for the function of privacy/helpers.py and for the one of app.py.
C22_ValidateColumnSelection ==
    op = "validate_column_selection" =>
        LET valid == ExactPartition(vcs.columns, vcs.categorical_cols, vcs.numerical_cols)
        IN /\ vcs.valid = valid
           /\ vcs.app_valid = valid

AloneEnforced(t) ==
    enforce_privacy(before, dtypes, thread[t].cols.quasi, thread[t].cols.sens, thr.t, thr.k, thr.l)
AloneReport(t) ==
    P_29_score(before, dtypes, thread[t].cols.quasi, thread[t].cols.sens, DefaultWeights)

\* C24: while two callers run P_29_score or enforce_privacy on one dataset, in
\* any interleaving of their steps, the dataset stays as it was, and a caller
\* that has finished holds what it obtains alone: the same frame, the same
\* report, or the same failure.
C24_ConcurrentCallersIsolated ==
    pc = "concurrent" =>
        /\ data = before
        /\ \A t \in Threads : thread[t].pc = "done" =>
              IF thread[t].op = "enforce_privacy"
              THEN /\ thread[t].ok = AloneEnforced(t).ok
                   /\ thread[t].ok => thread[t].df = AloneEnforced(t).df
              ELSE /\ thread[t].ok = AloneReport(t).ok
                   /\ thread[t].ok => thread[t].report = AloneReport(t)

\* Both callers have finished on a dataset of two rows: one enforced and had
\* rows removed, the other evaluated, with other column lists, and has a report.
C24_Witness ==
    /\ pc = "concurrent"
    /\ Len(data) = MaxSharedRows
    /\ \A t \in Threads : thread[t].pc = "done" /\ thread[t].ok
    /\ thread[1].op = "enforce_privacy" /\ thread[1].df # data
    /\ thread[2].op = "P_29_score" /\ thread[2].cols # thread[1].cols

\* What each of the three checks finds, run by itself on the tables of the
\* evaluated dataset.
KFound == check_k_anonymity_violations(k_anonymity_for_sensitive_attr(data, dtypes, cols.quasi))
LFound == check_l_diversity_violations(normalized_entropy_for_sensitive_attr(data, dtypes, cols.quasi, cols.sens))
TFound == check_t_closeness_violations(t_closeness_for_sensitive_attr(data, dtypes, cols.quasi, cols.sens), DefaultTThreshold)

\* The reason a check adds to the report when it finds a violation.
ReasonsOf(found, reason) == IF Len(found.violations) > 0 THEN <<reason>> ELSE <<>>

\* C25: evaluate runs the three checks on every call, whatever the earlier
\* ones found: the violations of the report are what the k check finds, then
\* what the l check finds, then what the t check finds, none left out, and the
\* reasons hold one entry for each check that found a violation.
C25_AllChecksRun ==
    pc = "evaluated" =>
        /\ report.problematic_info = KFound.violations \o LFound.violations \o TFound.violations
        /\ report.reasons = ReasonsOf(KFound, "k-anonymity is 1")
                             \o ReasonsOf(LFound, "normalized entropy l-value is 0 for some attribute")
                             \o ReasonsOf(TFound, "t-value exceeds 0.5 for some attribute")

\* A report in which all three checks found a violation.
C25_Witness ==
    /\ pc = "evaluated"
    /\ Len(KFound.violations) > 0 /\ Len(LFound.violations) > 0 /\ Len(TFound.violations) > 0
    /\ Len(report.reasons) = 3
    /\ Len(report.problematic_info) >= 3

\* The tables evaluate builds from the dataset.
KTable == k_anonymity_for_sensitive_attr(data, dtypes, cols.quasi)
LTable == normalized_entropy_for_sensitive_attr(data, dtypes, cols.quasi, cols.sens)
TTable == t_closeness_for_sensitive_attr(data, dtypes, cols.quasi, cols.sens)

\* C26: in every report of evaluate, min_k is the smallest k of the partitions,
\* min_l the smallest normalized entropy over the partitions and all sensitive
\* columns, the first one included, and max_t the largest t-closeness over the
\* partitions and all sensitive columns.
C26_ReportExtremes ==
    pc = "evaluated" =>
        /\ report.min_k = MinK(KTable)
        /\ \A g \in Classes(data, cols.quasi) : report.min_k <= Len(RowsOfGroup(data, cols.quasi, g))
        /\ report.min_l = RMin(CellsFrom(LTable, 1))
        /\ report.max_t = RMax(CellsFrom(TTable, 1))

\* What enforce hands to a caller that gives it the empty dataset: nothing is
\* removed, the call converges at once.
CleanOnEmpty == enforce_privacy(<<>>, dtypes, cols.quasi, cols.sens, thr.t, thr.k, thr.l)

\* C27: the result of an enforce that emptied a dataset by removing every
\* partition can be told from the result of a clean convergence: what the
\* caller is handed differs from what a call that removed nothing hands back.
C27_ExhaustionDistinguished ==
    (op = "enforce_privacy" /\ pc = "enforced" /\ Len(data) > 0 /\ Len(out) = 0)
        => ~(CleanOnEmpty.ok /\ CleanOnEmpty.df = out)

\* The rows of the dataset that the key selects in enforce.
RowsWithKey(key) ==
    SelectSeq(data, LAMBDA row : get_key(dtypes, row, cols.quasi) = key)

\* C28: for every partition, the key of its entry in the k-anonymity table, in
\* the normalized-entropy table and in the t-closeness table, and the key
\* enforce computes for each of its rows, are one string, "col1: val1, col2:
\* val2" in quasi-identifier order; the key selects the partition's rows and
\* no others.
C28_GroupKeysAgree ==
    (op \in {"P_29_score", "enforce_privacy"} /\ pc \in {"evaluated", "enforced"})
        => \A i \in 1..Len(data) :
              LET g == GroupTuple(data[i], cols.quasi)
                  key == get_key(dtypes, data[i], cols.quasi)
              IN /\ key = get_group_key(cols.quasi,
                                        [j \in 1..Len(cols.quasi) |->
                                            RowStr(dtypes, cols.quasi[j], g[j])])
                 /\ key \in DictKeys(KTable.rows)
                 /\ RowOf(LTable, key) # 0
                 /\ RowOf(TTable, key) # 0
                 /\ RowsWithKey(key) = RowsOfGroup(data, cols.quasi, g)

\* privacy_processing has called enforce_privacy in the request that ended.
EnforcementRan == op = "handle_p29_score" /\ pc \in {"processed", "raised"} /\ Len(before) > 0

\* C29: over the score-calculation and privacy_processing requests of one
\* session, privacy_processing never runs enforcement or scoring with a
\* quasi-identifier list and a sensitive-attribute list that share a column.
C29_RejectedSelectionNeverUsed ==
    EnforcementRan => ~Overlap(session.quasi_identifiers, session.sensitive_attributes)

\* C30: when a privacy_processing request completes, the report of the
\* response is the evaluation of the dataset the request persisted (enforce,
\* save the filtered dataset, evaluate the filtered dataset): the report does
\* not describe rows the request removed.
C30_ReportDescribesSavedDataset ==
    (op = "handle_p29_score" /\ pc = "processed")
        => report = P_29_score(data, dtypes, session.quasi_identifiers,
                               session.sensitive_attributes, DefaultWeights)

====
